---- MODULE Spec2Model ----
(***************************************************************************)
(* The editable body cell of the data table (BodyCell.vue): the edit/view  *)
(* state of every cell of one table, the document-level outside-click      *)
(* listeners, the overlay-click listeners, keyboard navigation between     *)
(* editable cells and the events each cell emits to its parent.            *)
(*                                                                         *)
(* One step of the model is one DOM event (or one prop change made by the  *)
(* parent) together with everything its handlers do synchronously.  The    *)
(* rendered classes read by the navigation code (p-cell-editing) are those *)
(* of the last render, i.e. the d_editing flags at the start of the        *)
(* handler; p-editable-column is static.                                   *)
(***************************************************************************)
EXTENDS Integers, Sequences, FiniteSets, TLC

\* How many orphaned mouseup/mousemove closures one cell may accumulate.
MaxOrphans == 2
\* How many times the parent changes an `editing` prop.
MaxPropChanges == 2
\* How many cells are unmounted while the table is in use.
MaxUnmounts == 1
\* The sticky-position runs: cells in the row and the largest cell width.
RowLength == 3
MaxWidth == 2

\* Column descriptors: field name, editor slot present, rowEditor flag.
EditorColumn(f) == [field |-> f, editor |-> TRUE, rowEditor |-> FALSE]
PlainColumn(f) == [field |-> f, editor |-> FALSE, rowEditor |-> FALSE]
RowEditorColumn(f) == [field |-> f, editor |-> FALSE, rowEditor |-> TRUE]

\* The tables explored: the columns (one BodyCell per column in every row)
\* and the number of rows.
OneRowTable ==
    [columns |-> <<EditorColumn("TGID"), PlainColumn("TDNA"), EditorColumn("TLNA")>>,
     numRows |-> 1]
TwoRowTable ==
    [columns |-> <<EditorColumn("TGID"), PlainColumn("TDNA")>>, numRows |-> 2]
PairTable ==
    [columns |-> <<EditorColumn("TGID"), EditorColumn("TDNA")>>, numRows |-> 1]
RowEditTable ==
    [columns |-> <<EditorColumn("TGID"), RowEditorColumn("EDIT")>>, numRows |-> 1]
PlainTable ==
    [columns |-> <<PlainColumn("TGID"), PlainColumn("TDNA")>>, numRows |-> 2]

\* Columns with a selectionMode or the expander prop, and a table of them.
SelectionColumn(mode) ==
    [field |-> "TGID", editor |-> FALSE, rowEditor |-> FALSE,
     selectionMode |-> mode]
ExpanderColumn ==
    [field |-> "TGID", editor |-> FALSE, rowEditor |-> FALSE,
     expander |-> TRUE]
ToggleTable ==
    [columns |-> <<SelectionColumn("single"), SelectionColumn("multiple"),
                   ExpanderColumn>>,
     numRows |-> 1]

\* Columns by their frozen and alignFrozen props, and the one-row tables
\* made of them.
FrozenColumn(align) ==
    [field |-> "TGID", editor |-> FALSE, rowEditor |-> FALSE,
     frozen |-> TRUE, alignFrozen |-> align]
ScrollingColumn ==
    [field |-> "TGID", editor |-> FALSE, rowEditor |-> FALSE,
     frozen |-> FALSE, alignFrozen |-> "left"]
StickyTables ==
    { [columns |-> cols, numRows |-> 1] :
        cols \in [1..RowLength ->
                    {ScrollingColumn, FrozenColumn("left"), FrozenColumn("right")}] }

\* What the surroundings of the table do during one run: whether the
\* pointer is moved while a button is held, whether the parent's
\* cell-edit-complete handler writes row records, how many times the
\* parent changes the editing flag of a row, and how many times a cell is
\* left by a key and activated again while a pointer button is held (each
\* time orphans the mouseup/mousemove closures of the cell), and how many
\* cells are unmounted.
Quiet == [moves |-> FALSE, writes |-> FALSE, props |-> 0, orphans |-> 0,
          unmounts |-> MaxUnmounts]
Moving == [moves |-> TRUE, writes |-> FALSE, props |-> 0, orphans |-> 0,
           unmounts |-> MaxUnmounts]
Writing == [moves |-> FALSE, writes |-> TRUE, props |-> 0, orphans |-> 0,
            unmounts |-> MaxUnmounts]
Forcing == [moves |-> FALSE, writes |-> FALSE, props |-> MaxPropChanges,
            orphans |-> 0, unmounts |-> MaxUnmounts]
Holding == [moves |-> FALSE, writes |-> FALSE, props |-> 0,
            orphans |-> MaxOrphans, unmounts |-> MaxUnmounts]

Scenarios ==
    { [table |-> OneRowTable, editMode |-> "cell", env |-> Moving],
      [table |-> PairTable, editMode |-> "cell", env |-> Writing],
      [table |-> OneRowTable, editMode |-> "cell", env |-> Forcing],
      [table |-> TwoRowTable, editMode |-> "cell", env |-> Quiet],
      [table |-> PairTable, editMode |-> "cell", env |-> Holding],
      [table |-> PlainTable, editMode |-> "cell", env |-> Quiet],
      [table |-> ToggleTable, editMode |-> "null", env |-> Quiet],
      [table |-> RowEditTable, editMode |-> "row", env |-> Forcing],
      [table |-> RowEditTable, editMode |-> "null", env |-> Forcing] }

Null == <<>>

VARIABLES
    table,                  \* the table: column descriptors and row count
    editMode,               \* prop editMode
    env,                    \* what the surroundings do in this run
    editing,                \* prop editing, per cell (owned by the parent)
    rowData,                \* the row records, per cell: rowData[field]
    d_editing,              \* data d_editing, per cell
    documentEditListener,   \* the mousedown listener is on the document
    selfClick,              \* this.selfClick
    overlayEventListener,   \* this.overlayEventListener is set (and on the bus)
    overlayOrphaned,        \* overlay listeners on the bus no field refers to
    mouseUpListener,        \* current mouseup/mousemove closures are on the document
    orphaned,               \* older mouseup/mousemove closures still on the document
    drag,                   \* the drag flag of the current closures
    emitted,                \* events each cell emitted during the last step
    observed,               \* d_editing of the cell as each handler call of the last step saw it
    lastOp,                 \* the last step: operation, cell, key, outcome
    propChanges,            \* how many prop changes the parent has made
    outerWidth,             \* DomHandler.getOuterWidth of the cell's element
    styleObject,            \* data styleObject, per cell
    style,                  \* the inline style of the cell's element ($el.style)
    isMounted,              \* the cell's mounted hook has run
    unmounted               \* the cell's component is unmounted, its element gone

vars == <<table, editMode, env, editing, rowData, d_editing, documentEditListener,
          selfClick, overlayEventListener, overlayOrphaned, mouseUpListener,
          orphaned, drag, emitted, observed, lastOp, propChanges,
          outerWidth, styleObject, style, isMounted, unmounted>>

Rows == 1..table.numRows
Cols == 1..Len(table.columns)
Cells == Rows \X Cols

\* Props of a cell at DOM position <<r, c>>.
column(x) == table.columns[x[2]]
rowIndex(x) == x[1] - 1
index(x) == x[2] - 1
columnProp(x, prop) == IF prop = "field" THEN column(x).field
                       ELSE IF prop = "rowEditor" THEN column(x).rowEditor
                       ELSE IF prop \in DOMAIN column(x) THEN column(x)[prop]
                       ELSE FALSE

isEditable(x) == column(x).editor

(***************************************************************************)
(* Events.  Every event is a record of the same shape; "-" and -1 stand   *)
(* for a key the event does not carry.  `data` names the row record that   *)
(* is passed by reference.                                                 *)
(***************************************************************************)
CellEvent(name, x, type, prevented) ==
    [name |-> name, data |-> x[1], field |-> columnProp(x, "field"),
     index |-> rowIndex(x), cellIndex |-> -1, type |-> type,
     editing |-> "-", defaultPrevented |-> prevented]

EditingCellChange(x, flag) ==
    [name |-> "editing-cell-change", data |-> -1, field |-> "-",
     index |-> rowIndex(x), cellIndex |-> index(x), type |-> "-",
     editing |-> IF flag THEN "true" ELSE "false", defaultPrevented |-> FALSE]

\* What the parent's cell-edit-complete handler does with the event: it may
\* call preventDefault and it may write the edited value into the record.
HandlerOutcomes == [prevent : BOOLEAN, write : BOOLEAN]

(***************************************************************************)
(* The component state a handler works on, as one record.                  *)
(***************************************************************************)
World ==
    [d_editing |-> d_editing, documentEditListener |-> documentEditListener,
     selfClick |-> selfClick, overlayEventListener |-> overlayEventListener,
     overlayOrphaned |-> overlayOrphaned, mouseUpListener |-> mouseUpListener,
     orphaned |-> orphaned, drag |-> drag, rowData |-> rowData,
     emitted |-> [x \in Cells |-> <<>>],
     observed |-> [x \in Cells |-> <<>>],
     error |-> FALSE, defaultPrevented |-> FALSE]

emit(w, x, ev) == [w EXCEPT !.emitted[x] = Append(@, ev)]

\* The external handler of cell-edit-complete (parent code, not the cell).
HandleCellEditComplete(w, x, h) ==
    LET seen == [w EXCEPT !.observed[x] = Append(@, w.d_editing[x])]
    IN IF h.write THEN [seen EXCEPT !.rowData[x] = "edited"] ELSE seen

bindDocumentEditListener(w, x) ==
    IF ~w.documentEditListener[x]
    THEN [w EXCEPT !.drag[x] = FALSE,
                   !.orphaned[x] = @ + (IF w.mouseUpListener[x] THEN 1 ELSE 0),
                   !.mouseUpListener[x] = FALSE,
                   !.documentEditListener[x] = TRUE]
    ELSE w

unbindDocumentEditListener(w, x) ==
    IF w.documentEditListener[x]
    THEN [w EXCEPT !.documentEditListener[x] = FALSE, !.selfClick[x] = FALSE]
    ELSE w

switchCellToViewMode(w, x) ==
    LET w1 == [w EXCEPT !.d_editing[x] = FALSE]
        w2 == unbindDocumentEditListener(w1, x)
        w3 == emit(w2, x, EditingCellChange(x, FALSE))
    IN [w3 EXCEPT !.overlayEventListener[x] = FALSE]

\* onClick activating an editable cell whatever the edit mode of the table.
onClick_AnyMode(w, x) ==
    IF isEditable(x)
    THEN LET w1 == [w EXCEPT !.selfClick[x] = TRUE]
         IN IF ~w1.d_editing[x]
            THEN LET w2 == [w1 EXCEPT !.d_editing[x] = TRUE]
                     w3 == bindDocumentEditListener(w2, x)
                     w4 == emit(w3, x, CellEvent("cell-edit-init", x, "-", FALSE))
                     w5 == emit(w4, x, EditingCellChange(x, TRUE))
                 IN [w5 EXCEPT
                       !.overlayOrphaned[x] =
                           @ + (IF w5.overlayEventListener[x] THEN 1 ELSE 0),
                       !.overlayEventListener[x] = TRUE]
            ELSE w1
    ELSE w

onClick(w, x) ==
    IF editMode = "cell" /\ isEditable(x)
    THEN LET w1 == [w EXCEPT !.selfClick[x] = TRUE]
         IN IF ~w1.d_editing[x]
            THEN LET w2 == [w1 EXCEPT !.d_editing[x] = TRUE]
                     w3 == bindDocumentEditListener(w2, x)
                     w4 == emit(w3, x, CellEvent("cell-edit-init", x, "-", FALSE))
                     w5 == emit(w4, x, EditingCellChange(x, TRUE))
                 IN [w5 EXCEPT
                       !.overlayOrphaned[x] =
                           @ + (IF w5.overlayEventListener[x] THEN 1 ELSE 0),
                       !.overlayEventListener[x] = TRUE]
            ELSE w1
    ELSE w

\* completeEdit reporting the cell index where the row index belongs.
completeEdit_CellIndex(w, x, type, h) ==
    LET w1 == emit(w, x, [CellEvent("cell-edit-complete", x, type, h.prevent)
                             EXCEPT !.index = index(x)])
        w2 == HandleCellEditComplete(w1, x, h)
    IN IF ~h.prevent THEN switchCellToViewMode(w2, x) ELSE w2

\* completeEdit storing the edited value itself when the commit goes through.
completeEdit_Stores(w, x, type, h) ==
    LET w1 == emit(w, x, CellEvent("cell-edit-complete", x, type, h.prevent))
        w2 == HandleCellEditComplete(w1, x, h)
    IN IF ~h.prevent
       THEN switchCellToViewMode([w2 EXCEPT !.rowData[x] = "edited"], x)
       ELSE w2

\* completeEdit without the defaultPrevented test.
completeEdit_Uncancellable(w, x, type, h) ==
    LET w1 == emit(w, x, CellEvent("cell-edit-complete", x, type, h.prevent))
        w2 == HandleCellEditComplete(w1, x, h)
    IN switchCellToViewMode(w2, x)

completeEdit(w, x, type, h) ==
    LET w1 == emit(w, x, CellEvent("cell-edit-complete", x, type, h.prevent))
        w2 == HandleCellEditComplete(w1, x, h)
    IN IF ~h.prevent THEN switchCellToViewMode(w2, x) ELSE w2

\* findCell(event.target): the nearest ancestor carrying p-cell-editing, for
\* a target inside cell x, given the rendered classes `dom`.
findCell(x, dom) == IF dom[x] THEN x ELSE Null

\* The elements of row r that are in the document, by column number, and
\* the first and the last of a set S of them (Null when S is empty).
Children(r) == {c \in 1..Len(table.columns) : ~unmounted[<<r, c>>]}
firstElement(r, S) ==
    IF S = {} THEN Null ELSE <<r, CHOOSE c \in S : \A d \in S : c <= d>>
lastElement(r, S) ==
    IF S = {} THEN Null ELSE <<r, CHOOSE c \in S : \A d \in S : d <= c>>

previousElementSibling(cell) ==
    lastElement(cell[1], {c \in Children(cell[1]) : c < cell[2]})
nextElementSibling(cell) ==
    firstElement(cell[1], {c \in Children(cell[1]) : c > cell[2]})
\* First/last cell of the row before/after the row of `cell`, Null without one.
previousRowLastChild(cell) ==
    IF cell[1] > 1 THEN lastElement(cell[1] - 1, Children(cell[1] - 1)) ELSE Null
\* The next row, wrapping from the last row to the first.
nextRowFirstChild_Wraps(cell) ==
    IF cell[1] < table.numRows
    THEN firstElement(cell[1] + 1, Children(cell[1] + 1))
    ELSE firstElement(1, Children(1))

nextRowFirstChild(cell) ==
    IF cell[1] < table.numRows
    THEN firstElement(cell[1] + 1, Children(cell[1] + 1))
    ELSE Null

\* findPreviousEditableColumn without the p-editable-column test.
findPreviousEditableColumn_NoSkip(cell) ==
    LET sibling == previousElementSibling(cell)
    IN IF sibling = Null THEN previousRowLastChild(cell) ELSE sibling

RECURSIVE findPreviousEditableColumn(_)
findPreviousEditableColumn(cell) ==
    LET sibling == previousElementSibling(cell)
        prevCell == IF sibling = Null THEN previousRowLastChild(cell) ELSE sibling
    IN IF prevCell # Null
       THEN IF isEditable(prevCell) THEN prevCell
            ELSE findPreviousEditableColumn(prevCell)
       ELSE Null

\* findNextEditableColumn without the p-editable-column test.
findNextEditableColumn_NoSkip(cell) ==
    LET sibling == nextElementSibling(cell)
    IN IF sibling = Null THEN nextRowFirstChild(cell) ELSE sibling

\* findNextEditableColumn starting over at the first cell of the table when
\* it runs off the last row.
RECURSIVE findNextEditableColumn_StartsOver(_)
findNextEditableColumn_StartsOver(cell) ==
    LET sibling == nextElementSibling(cell)
        nextCell == IF sibling = Null THEN nextRowFirstChild(cell) ELSE sibling
    IN IF nextCell # Null
       THEN IF isEditable(nextCell) THEN nextCell
            ELSE findNextEditableColumn_StartsOver(nextCell)
       ELSE IF isEditable(<<1, 1>>) THEN <<1, 1>> ELSE Null

RECURSIVE findNextEditableColumn(_)
findNextEditableColumn(cell) ==
    LET sibling == nextElementSibling(cell)
        nextCell == IF sibling = Null THEN nextRowFirstChild(cell) ELSE sibling
    IN IF nextCell # Null
       THEN IF isEditable(nextCell) THEN nextCell
            ELSE findNextEditableColumn(nextCell)
       ELSE Null

\* moveToPreviousCell / moveToNextCell; a null current cell makes the search
\* dereference null, which throws.
moveToCell(w, currentCell, targetCell) ==
    IF currentCell = Null THEN [w EXCEPT !.error = TRUE]
    ELSE IF targetCell # Null
         THEN [onClick(w, targetCell) EXCEPT !.defaultPrevented = TRUE]
         ELSE w

moveToPreviousCell(w, x, dom) ==
    LET currentCell == findCell(x, dom)
    IN moveToCell(w, currentCell,
                  IF currentCell = Null THEN Null
                  ELSE findPreviousEditableColumn(currentCell))

moveToNextCell(w, x, dom) ==
    LET currentCell == findCell(x, dom)
    IN moveToCell(w, currentCell,
                  IF currentCell = Null THEN Null
                  ELSE findNextEditableColumn(currentCell))

Keys == {"enter", "escape", "tab", "shift-tab"}

\* onKeyDown with Escape routed through the cancellable commit.
onKeyDown_EscapeCommits(w, x, key, h) ==
    IF editMode = "cell"
    THEN CASE key = "enter" -> completeEdit(w, x, "enter", h)
           [] key = "escape" ->
                emit(completeEdit(w, x, "escape", h), x,
                     CellEvent("cell-edit-cancel", x, "-", FALSE))
           [] key = "tab" ->
                moveToNextCell(completeEdit(w, x, "tab", h), x, w.d_editing)
           [] key = "shift-tab" ->
                moveToPreviousCell(completeEdit(w, x, "tab", h), x, w.d_editing)
           [] OTHER -> w
    ELSE w

onKeyDown(w, x, key, h) ==
    IF editMode = "cell"
    THEN CASE key = "enter" -> completeEdit(w, x, "enter", h)
           [] key = "escape" ->
                emit(switchCellToViewMode(w, x), x,
                     CellEvent("cell-edit-cancel", x, "-", FALSE))
           [] key = "tab" ->
                moveToNextCell(completeEdit(w, x, "tab", h), x, w.d_editing)
           [] key = "shift-tab" ->
                moveToPreviousCell(completeEdit(w, x, "tab", h), x, w.d_editing)
           [] OTHER -> w
    ELSE w

\* The mouseup closure, had it consulted the drag flag.
mouseUpClosure_DragSuppresses(w, x, h) ==
    LET w1 == IF ~w.selfClick[x] /\ ~w.drag[x]
              THEN completeEdit(w, x, "outside", h) ELSE w
    IN [w1 EXCEPT !.selfClick[x] = FALSE, !.mouseUpListener[x] = FALSE]

\* One run of a mouseup closure of cell x.
mouseUpClosure(w, x, h) ==
    LET w1 == IF ~w.selfClick[x] THEN completeEdit(w, x, "outside", h) ELSE w
    IN [w1 EXCEPT !.selfClick[x] = FALSE, !.mouseUpListener[x] = FALSE]

\* n closures of cell x run one after the other; hs holds the handler's
\* answer to each of them in turn (the handler is called anew by each).
RECURSIVE runClosures(_, _, _, _)
runClosures(w, x, n, hs) ==
    IF n = 0 THEN w
    ELSE runClosures(mouseUpClosure(w, x, Head(hs)), x, n - 1, Tail(hs))

\* The mouseup closures of cell x that run on one document mouseup: the
\* orphaned ones were registered first, and the first of them to run removes
\* the current one before it is reached.
mouseUpRuns(w, x) ==
    IF w.orphaned[x] > 0 THEN w.orphaned[x]
    ELSE IF w.mouseUpListener[x] THEN 1 ELSE 0

mouseUpListenerOf(w, x, hs) == runClosures(w, x, mouseUpRuns(w, x), hs)

\* documentEditListener of cell x: the mousedown handler.
documentEditListenerOf(w, x) ==
    IF w.documentEditListener[x] THEN [w EXCEPT !.mouseUpListener[x] = TRUE] ELSE w

\* mouseMoveListener counting a drag as a gesture of the cell itself.
mouseMoveListenerOf_MarksSelf(w, x) ==
    IF w.mouseUpListener[x]
    THEN [w EXCEPT !.drag[x] = TRUE, !.selfClick[x] = TRUE]
    ELSE w

mouseMoveListenerOf(w, x) ==
    IF w.mouseUpListener[x] THEN [w EXCEPT !.drag[x] = TRUE] ELSE w

overlayEventListenerOf(w, x, target) ==
    IF (w.overlayEventListener[x] \/ w.overlayOrphaned[x] > 0) /\ target = x
    THEN [w EXCEPT !.selfClick[x] = TRUE]
    ELSE w

\* onRowEditSave leaving edit mode by itself.
onRowEditSave_LeavesEditing(w, x) ==
    switchCellToViewMode(emit(w, x, CellEvent("row-edit-save", x, "-", FALSE)), x)

\* toggleRow emits the row record; the two selection handlers pass on the
\* event of the radio button or checkbox as it is.
toggleRow(w, x) ==
    emit(w, x, [CellEvent("row-toggle", x, "-", FALSE)
                   EXCEPT !.field = "-", !.index = -1])
toggleRowWithRadio(w, x) ==
    emit(w, x, [CellEvent("radio-change", x, "-", FALSE)
                   EXCEPT !.data = -1, !.field = "-", !.index = -1])
toggleRowWithCheckbox(w, x) ==
    emit(w, x, [CellEvent("checkbox-change", x, "-", FALSE)
                   EXCEPT !.data = -1, !.field = "-", !.index = -1])

\* beforeUnmount takes the overlay listener the field refers to off the bus;
\* the document listeners and older overlay listeners stay.
beforeUnmount(w, x) ==
    IF w.overlayEventListener[x]
    THEN [w EXCEPT !.overlayEventListener[x] = FALSE]
    ELSE w

onRowEditInit(w, x) == emit(w, x, CellEvent("row-edit-init", x, "-", FALSE))
onRowEditSave(w, x) == emit(w, x, CellEvent("row-edit-save", x, "-", FALSE))
onRowEditCancel(w, x) == emit(w, x, CellEvent("row-edit-cancel", x, "-", FALSE))

(***************************************************************************)
(* Sticky position of frozen cells.  A number is an integer or NaN; a CSS  *)
(* length is the text of a style property: a number followed by "px", or   *)
(* the empty string of a property that is not set.                         *)
(***************************************************************************)
NaN == [nan |-> TRUE, val |-> 0]
Num(n) == [nan |-> FALSE, val |-> n]
\* a + b of JavaScript numbers.
Plus(a, b) == IF a.nan \/ b.nan THEN NaN ELSE Num(a.val + b.val)
\* a + 'px'
Px(a) == [text |-> "px", num |-> a]
EmptyString == [text |-> "", num |-> NaN]
parseFloat(str) == IF str.text = "" THEN NaN ELSE str.num

\* A style without left and right; data() returns styleObject: {}.
NoStyle == [left |-> EmptyString, right |-> EmptyString]

getOuterWidth(el) == Num(outerWidth[el])

\* updateStickyPosition of cell x, given every cell's styleObject `so` and
\* the inline styles `st` of the elements: the new styleObjects.
updateStickyPosition(so, st, x) ==
    IF columnProp(x, "frozen")
    THEN IF columnProp(x, "alignFrozen") = "right"
         THEN LET next == nextElementSibling(x)
                  right == IF next # Null
                           THEN Plus(getOuterWidth(next), parseFloat(st[next].left))
                           ELSE Num(0)
              IN [so EXCEPT ![x].right = Px(right)]
         ELSE LET prev == previousElementSibling(x)
                  left == IF prev # Null
                          THEN Plus(getOuterWidth(prev), parseFloat(st[prev].left))
                          ELSE Num(0)
              IN [so EXCEPT ![x].left = Px(left)]
    ELSE so

\* The mounted and the updated hook.
mounted(so, st, x) ==
    IF columnProp(x, "frozen") THEN updateStickyPosition(so, st, x) ELSE so
updated(so, st, x) ==
    IF columnProp(x, "frozen") THEN updateStickyPosition(so, st, x) ELSE so

\* Computed containerStyle (the columns carry no style and no bodyStyle).
containerStyle(so, x) == IF columnProp(x, "frozen") THEN so[x] ELSE NoStyle

\* A render of cell x writes containerStyle to the element: a property that
\* is a length is set, one that is not ('NaNpx') is refused by the element
\* and keeps the text it had.
IsLength(str) == str.text = "px" /\ ~str.num.nan
renderStyle(so, st, x) ==
    LET new == containerStyle(so, x)
    IN [st EXCEPT ![x] =
          [left |-> IF IsLength(new.left) THEN new.left ELSE st[x].left,
           right |-> IF IsLength(new.right) THEN new.right ELSE st[x].right]]

(***************************************************************************)
(* The state machine.                                                      *)
(***************************************************************************)
\* `follows` is kept for a mousedown only: the cell whose activating click
\* was the step right before it (Null when there was none).
NoOp == [op |-> "init", cell |-> Null, key |-> "-", follows |-> Null,
         error |-> FALSE, defaultPrevented |-> FALSE]

\* The fields of every cell of `table` after construction.
Constructed ==
    /\ editing = [x \in Cells |-> FALSE]
    /\ rowData = [x \in Cells |-> "original"]
    /\ d_editing = editing
    /\ documentEditListener = [x \in Cells |-> FALSE]
    /\ selfClick = [x \in Cells |-> FALSE]
    /\ overlayEventListener = [x \in Cells |-> FALSE]
    /\ overlayOrphaned = [x \in Cells |-> 0]
    /\ mouseUpListener = [x \in Cells |-> FALSE]
    /\ orphaned = [x \in Cells |-> 0]
    /\ drag = [x \in Cells |-> FALSE]
    /\ emitted = [x \in Cells |-> <<>>]
    /\ observed = [x \in Cells |-> <<>>]
    /\ lastOp = NoOp
    /\ propChanges = 0
    /\ styleObject = [x \in Cells |-> NoStyle]
    /\ style = [x \in Cells |-> NoStyle]
    /\ unmounted = [x \in Cells |-> FALSE]

\* The table is on the page, every cell mounted.
Init ==
    /\ \E s \in Scenarios :
          table = s.table /\ editMode = s.editMode /\ env = s.env
    /\ Constructed
    /\ outerWidth = [x \in Cells |-> 1]
    /\ isMounted = [x \in Cells |-> TRUE]

\* The handler's outcome for the event of cell x, when it prevents the
\* commits of the cells in P and writes the records of the cells in Wr.
Outcome(x, P, Wr) == [prevent |-> x \in P, write |-> x \in Wr]

\* The sets of cells whose records the handler may write, among S.
Writes(S) == IF env.writes THEN SUBSET S ELSE {{}}

\* The state after a handler that leaves the component in world w.
Becomes(w, op) ==
    /\ \A x \in Cells : w.orphaned[x] <= env.orphans
    /\ d_editing' = w.d_editing
    /\ documentEditListener' = w.documentEditListener
    /\ selfClick' = w.selfClick
    /\ overlayEventListener' = w.overlayEventListener
    /\ overlayOrphaned' = w.overlayOrphaned
    /\ mouseUpListener' = w.mouseUpListener
    /\ orphaned' = w.orphaned
    /\ drag' = w.drag
    /\ rowData' = w.rowData
    /\ emitted' = w.emitted
    /\ observed' = w.observed
    /\ lastOp' = [op EXCEPT !.error = w.error,
                            !.defaultPrevented = w.defaultPrevented]
    /\ UNCHANGED <<table, editMode, env, outerWidth, styleObject, style, isMounted>>

\* A document-level event runs the listener of every cell; each listener
\* touches the state of its own cell only.
Dispatch(Listener(_, _)) ==
    [f \in DOMAIN World |->
        IF f \in {"error", "defaultPrevented"} THEN FALSE
        ELSE [x \in Cells |-> Listener(World, x)[f][x]]]

\* A click on cell x (a user's click or a synthesized one).
Click(x) ==
    /\ ~unmounted[x]
    /\ Becomes(onClick(World, x), [NoOp EXCEPT !.op = "click", !.cell = x])
    /\ UNCHANGED <<editing, propChanges, unmounted>>

\* A keydown inside cell x.
KeyDown(x, key, P, Wr) ==
    /\ ~unmounted[x]
    /\ Becomes(onKeyDown(World, x, key, Outcome(x, P, Wr)),
               [NoOp EXCEPT !.op = "keydown", !.cell = x, !.key = key])
    /\ UNCHANGED <<editing, propChanges, unmounted>>

\* A mousedown anywhere in the document.
MouseDown ==
    /\ Becomes(Dispatch(documentEditListenerOf),
               [NoOp EXCEPT !.op = "mousedown",
                            !.follows = IF lastOp.op = "click"
                                           /\ emitted[lastOp.cell] # <<>>
                                        THEN lastOp.cell ELSE Null])
    /\ UNCHANGED <<editing, propChanges, unmounted>>

\* A mousemove anywhere in the document.
MouseMove ==
    /\ env.moves
    /\ Becomes(Dispatch(mouseMoveListenerOf), [NoOp EXCEPT !.op = "mousemove"])
    /\ UNCHANGED <<editing, propChanges, unmounted>>

\* The handler calls of one mouseup: <<x, i>> when the i-th closure of
\* cell x to run calls completeEdit (the first does not when the self-click
\* flag is set; it clears the flag for the ones after it).
Committers ==
    {c \in Cells \X (1..MaxOrphans + 1) :
        /\ c[2] <= mouseUpRuns(World, c[1])
        /\ c[2] > (IF selfClick[c[1]] THEN 1 ELSE 0)}

\* The handler's answers to the closures of cell x, in the order they run.
Answers(x, P, Wr) ==
    [i \in 1..mouseUpRuns(World, x) |-> Outcome(<<x, i>>, P, Wr)]

\* A mouseup anywhere in the document.
MouseUp(P, Wr) ==
    /\ LET Listener(w, x) == mouseUpListenerOf(w, x, Answers(x, P, Wr))
       IN Becomes(Dispatch(Listener), [NoOp EXCEPT !.op = "mouseup"])
    /\ UNCHANGED <<editing, propChanges, unmounted>>

\* An overlay-click notification whose target lies inside cell `target`
\* (Null: inside no cell).
OverlayClick(target) ==
    /\ target # Null => ~unmounted[target]
    /\ LET Listener(w, x) == overlayEventListenerOf(w, x, target)
       IN Becomes(Dispatch(Listener),
                  [NoOp EXCEPT !.op = "overlay-click", !.cell = target])
    /\ UNCHANGED <<editing, propChanges, unmounted>>

\* watch.editing of cell x, run when the prop changes to newValue.
watchEditing(w, x, newValue) == [w EXCEPT !.d_editing[x] = newValue]

\* The parent flips the editing flag it keeps for row r; the prop of every
\* cell of the row changes and the watcher of each mounted cell runs.
SetEditing(r) ==
    /\ propChanges < env.props
    /\ propChanges' = propChanges + 1
    /\ editing' = [x \in Cells |-> IF x[1] = r THEN ~editing[x] ELSE editing[x]]
    /\ LET Listener(w, x) == IF x[1] = r /\ ~unmounted[x]
                             THEN watchEditing(w, x, ~editing[x]) ELSE w
       IN Becomes(Dispatch(Listener),
                  [NoOp EXCEPT !.op = "set-editing", !.cell = <<r>>])
    /\ UNCHANGED unmounted

\* The row editor buttons, rendered in row mode for a rowEditor column.
RowEditInit(x) ==
    /\ ~unmounted[x]
    /\ editMode = "row" /\ columnProp(x, "rowEditor") /\ ~d_editing[x]
    /\ Becomes(onRowEditInit(World, x), [NoOp EXCEPT !.op = "row-edit-init", !.cell = x])
    /\ UNCHANGED <<editing, propChanges, unmounted>>

RowEditSave(x) ==
    /\ ~unmounted[x]
    /\ editMode = "row" /\ columnProp(x, "rowEditor") /\ d_editing[x]
    /\ Becomes(onRowEditSave(World, x), [NoOp EXCEPT !.op = "row-edit-save", !.cell = x])
    /\ UNCHANGED <<editing, propChanges, unmounted>>

RowEditCancel(x) ==
    /\ ~unmounted[x]
    /\ editMode = "row" /\ columnProp(x, "rowEditor") /\ d_editing[x]
    /\ Becomes(onRowEditCancel(World, x), [NoOp EXCEPT !.op = "row-edit-cancel", !.cell = x])
    /\ UNCHANGED <<editing, propChanges, unmounted>>

\* The row toggler button of an expander column, and the radio button and
\* the checkbox of a selection column (rendered unless the editor is).
Rendered(x, prop, value) ==
    /\ ~unmounted[x]
    /\ ~(isEditable(x) /\ d_editing[x])
    /\ prop \in DOMAIN column(x)
    /\ column(x)[prop] = value

ToggleRow(x) ==
    /\ Rendered(x, "expander", TRUE)
    /\ "selectionMode" \notin DOMAIN column(x)
    /\ Becomes(toggleRow(World, x), [NoOp EXCEPT !.op = "row-toggle", !.cell = x])
    /\ UNCHANGED <<editing, propChanges, unmounted>>

ToggleRowWithRadio(x) ==
    /\ Rendered(x, "selectionMode", "single")
    /\ Becomes(toggleRowWithRadio(World, x),
               [NoOp EXCEPT !.op = "radio-change", !.cell = x])
    /\ UNCHANGED <<editing, propChanges, unmounted>>

ToggleRowWithCheckbox(x) ==
    /\ Rendered(x, "selectionMode", "multiple")
    /\ Becomes(toggleRowWithCheckbox(World, x),
               [NoOp EXCEPT !.op = "checkbox-change", !.cell = x])
    /\ UNCHANGED <<editing, propChanges, unmounted>>

\* The component of cell x is unmounted and its element leaves the row.
Unmount(x) ==
    /\ ~unmounted[x]
    /\ Cardinality({y \in Cells : unmounted[y]}) < env.unmounts
    /\ unmounted' = [unmounted EXCEPT ![x] = TRUE]
    /\ Becomes(beforeUnmount(World, x), [NoOp EXCEPT !.op = "unmount", !.cell = x])
    /\ UNCHANGED <<editing, propChanges>>

Next ==
    \/ \E x \in Cells : Click(x)
    \/ \E x \in Cells, key \in Keys :
          \E P \in SUBSET {x}, Wr \in Writes({x}) : KeyDown(x, key, P, Wr)
    \/ MouseDown
    \/ MouseMove
    \/ \E P \in SUBSET Committers, Wr \in Writes(Committers) : MouseUp(P, Wr)
    \/ \E target \in Cells \cup {Null} : OverlayClick(target)
    \/ \E r \in Rows : SetEditing(r)
    \/ \E x \in Cells : RowEditInit(x)
    \/ \E x \in Cells : RowEditSave(x)
    \/ \E x \in Cells : RowEditCancel(x)
    \/ \E x \in Cells : ToggleRow(x)
    \/ \E x \in Cells : ToggleRowWithRadio(x)
    \/ \E x \in Cells : ToggleRowWithCheckbox(x)
    \/ \E x \in Cells : Unmount(x)

Spec == Init /\ [][Next]_vars

(***************************************************************************)
(* Reading the events of a step.                                           *)
(***************************************************************************)
Named(seq, name) == SelectSeq(seq, LAMBDA e : e.name = name)
Completes(seq) == Named(seq, "cell-edit-complete")
Has(seq, name) == Named(seq, name) # <<>>
\* The commit of the step was prevented by the handler.
Prevented(seq) == \E i \in DOMAIN seq :
    seq[i].name = "cell-edit-complete" /\ seq[i].defaultPrevented

CommitKeys == {"enter", "tab", "shift-tab"}

\* The step just taken is a keydown of `key` inside cell x of a table in
\* cell-edit mode.
KeyStep(x, key) ==
    /\ editMode = "cell"
    /\ lastOp'.op = "keydown" /\ lastOp'.cell = x /\ lastOp'.key = key

\* The step just taken is a document mouseup that cell x, Editing, hears
\* with its self-click flag unset.
OutsideStep(x) ==
    /\ lastOp'.op = "mouseup"
    /\ d_editing[x] /\ mouseUpListener[x] /\ ~selfClick[x]

\* C1: every commit trigger (Enter, Tab, Shift+Tab, outside pointer-up) on
\* an Editing cell emits cell-edit-complete, once for each call of
\* completeEdit the trigger makes; for each of these events emitted while
\* the cell was Editing: when the handler prevents it the cell is still
\* Editing after the call (and, the call being the last of the step, has the
\* listener registrations it had), otherwise the cell is Viewing after the
\* call.
C1_CommitStep(x) ==
    LET calls == Completes(emitted'[x])
        n == Len(calls)
    IN /\ n >= 1 /\ Len(observed'[x]) = n
       /\ observed'[x][1]
       /\ \A i \in 1..n :
             observed'[x][i]
             => LET after == IF i < n THEN observed'[x][i + 1] ELSE d_editing'[x]
                IN IF calls[i].defaultPrevented
                   THEN /\ after
                        /\ i = n
                           => /\ documentEditListener'[x] = documentEditListener[x]
                              /\ overlayEventListener'[x] = overlayEventListener[x]
                   ELSE ~after

C1_CommitIsCancellable ==
    [][\A x \in Cells :
          ((d_editing[x] /\ \E key \in CommitKeys : KeyStep(x, key)) \/ OutsideStep(x))
              => C1_CommitStep(x)]_vars

C1_Witness ==
    /\ lastOp.op = "keydown" /\ lastOp.key = "enter"
    /\ Prevented(emitted[lastOp.cell])
    /\ d_editing[lastOp.cell] /\ documentEditListener[lastOp.cell]

\* C2: in cell-edit mode an Escape keydown on an Editing cell leaves the
\* cell Viewing with its document mousedown listener and its overlay-click
\* listener unregistered, emits cell-edit-cancel and emits no
\* cell-edit-complete, whatever the commit handler would have answered.
C2_EscapeForcesViewing ==
    [][\A x \in Cells :
          (d_editing[x] /\ KeyStep(x, "escape"))
              => /\ ~d_editing'[x]
                 /\ ~documentEditListener'[x]
                 /\ ~overlayEventListener'[x]
                 /\ Has(emitted'[x], "cell-edit-cancel")
                 /\ ~Has(emitted'[x], "cell-edit-complete")]_vars

C2_Witness ==
    /\ editMode = "cell"
    /\ lastOp.op = "keydown" /\ lastOp.key = "escape"
    /\ isEditable(lastOp.cell)
    /\ Has(emitted[lastOp.cell], "cell-edit-cancel")
    /\ Has(emitted[lastOp.cell], "editing-cell-change")
    /\ ~d_editing[lastOp.cell]

\* C3: in cell-edit mode, over any sequence of clicks, key presses, pointer
\* gestures and prevented or accepted commits (the parent never touching the
\* editing prop), at most one cell of the table has d_editing = TRUE.
C3_AtMostOneEditing ==
    (editMode = "cell" /\ propChanges = 0)
        => Cardinality({x \in Cells : d_editing[x]}) <= 1

\* C4: a click on an editable cell in cell-edit mode that finds the cell
\* Viewing leaves exactly one document mousedown listener and exactly one
\* overlay-click listener registered for the cell and emits cell-edit-init
\* once; a click that finds the cell Editing registers nothing and emits
\* nothing, leaving the state as the first click left it.
C4_ActivationIdempotent ==
    [][\A x \in Cells :
          (editMode = "cell" /\ isEditable(x)
              /\ lastOp'.op = "click" /\ lastOp'.cell = x)
          => IF ~d_editing[x]
             THEN /\ d_editing'[x]
                  /\ documentEditListener'[x]
                  /\ overlayEventListener'[x] /\ overlayOrphaned'[x] = 0
                  /\ Len(Named(emitted'[x], "cell-edit-init")) = 1
             ELSE /\ emitted'[x] = <<>>
                  /\ selfClick'[x]
                  /\ <<d_editing, documentEditListener, overlayEventListener,
                       overlayOrphaned, mouseUpListener, orphaned, drag,
                       rowData>>' =
                     <<d_editing, documentEditListener, overlayEventListener,
                       overlayOrphaned, mouseUpListener, orphaned, drag,
                       rowData>>
                  /\ selfClick' = [selfClick EXCEPT ![x] = TRUE]]_vars

\* C5: in every reachable state a cell in Viewing holds no document
\* mousedown listener and no overlay-click listener, whichever way it left
\* Editing (commit, Escape, or the parent setting the editing prop to false).
C5_ViewingHoldsNoListener ==
    \A x \in Cells :
        ~d_editing[x] => ~documentEditListener[x] /\ ~overlayEventListener[x]

\* C6: a document pointer-up heard by an Editing cell (its mousedown
\* listener saw the pointer-down) whose self-click flag is unset, i.e. with no
\* click on the cell and no overlay-click inside it since the flag was last
\* cleared, emits cell-edit-complete with type "outside" and nothing of
\* another type, and the cell is Viewing afterwards when the handler let
\* one of these events pass.
C6_OutsidePointerUpCommits ==
    [][\A x \in Cells :
          OutsideStep(x)
              => /\ Completes(emitted'[x]) # <<>>
                 /\ \A i \in DOMAIN Completes(emitted'[x]) :
                        Completes(emitted'[x])[i].type = "outside"
                 /\ (\E i \in DOMAIN Completes(emitted'[x]) :
                        ~Completes(emitted'[x])[i].defaultPrevented)
                    => ~d_editing'[x]]_vars

C6_Witness ==
    /\ lastOp.op = "mouseup"
    /\ \E x \in Cells :
          /\ isEditable(x)
          /\ Len(Completes(emitted[x])) = 1
          /\ Completes(emitted[x])[1].type = "outside"
          /\ ~Completes(emitted[x])[1].defaultPrevented
          /\ ~d_editing[x] /\ ~documentEditListener[x]

(***************************************************************************)
(* Row-major order of the cells, stated without the search functions.      *)
(***************************************************************************)
Before(a, b) == a[1] < b[1] \/ (a[1] = b[1] /\ a[2] < b[2])
\* The editable cells in the document after, and before, cell x.
EditableAfter(x) == {y \in Cells : isEditable(y) /\ ~unmounted[y] /\ Before(x, y)}
EditableBefore(x) == {y \in Cells : isEditable(y) /\ ~unmounted[y] /\ Before(y, x)}
FirstOf(S) == CHOOSE y \in S : \A z \in S : z = y \/ Before(y, z)
LastOf(S) == CHOOSE y \in S : \A z \in S : z = y \/ Before(z, y)

\* C7: on Tab from an Editing cell, the first editable cell after it in
\* row-major order (across the end of the row when needed) is Editing
\* afterwards, having emitted cell-edit-init if it was Viewing; no other cell
\* enters Editing and the browser default of the key is prevented.
C7_TabSkipsNonEditable ==
    [][\A x \in Cells :
          (d_editing[x] /\ KeyStep(x, "tab") /\ EditableAfter(x) # {})
          => LET t == FirstOf(EditableAfter(x))
             IN /\ d_editing'[t] /\ selfClick'[t]
                /\ ~d_editing[t] => Has(emitted'[t], "cell-edit-init")
                /\ \A y \in Cells \ {t} : d_editing'[y] => d_editing[y]
                /\ lastOp'.defaultPrevented /\ ~lastOp'.error]_vars

C7_Witness ==
    /\ table = OneRowTable /\ editMode = "cell"
    /\ lastOp.op = "keydown" /\ lastOp.key = "tab" /\ lastOp.cell = <<1, 1>>
    /\ ~d_editing[<<1, 1>>] /\ ~d_editing[<<1, 2>>] /\ d_editing[<<1, 3>>]
    /\ Has(emitted[<<1, 3>>], "cell-edit-init")
    /\ emitted[<<1, 2>>] = <<>>

\* C8: Tab from an Editing cell with no editable cell after it (Shift+Tab:
\* before it) still emits one cell-edit-complete of type "tab", changes no
\* other cell and makes no other cell emit, does not prevent the browser
\* default and raises no error.
C8_NoTarget(x) ==
    /\ Len(Completes(emitted'[x])) = 1
    /\ Completes(emitted'[x])[1].type = "tab"
    /\ d_editing'[x] = Prevented(emitted'[x])
    /\ \A y \in Cells \ {x} :
          /\ d_editing'[y] = d_editing[y]
          /\ documentEditListener'[y] = documentEditListener[y]
          /\ emitted'[y] = <<>>
    /\ ~lastOp'.defaultPrevented
    /\ ~lastOp'.error

C8_TabAtTableEnd ==
    [][\A x \in Cells :
          /\ (d_editing[x] /\ KeyStep(x, "tab") /\ EditableAfter(x) = {})
                => C8_NoTarget(x)
          /\ (d_editing[x] /\ KeyStep(x, "shift-tab") /\ EditableBefore(x) = {})
                => C8_NoTarget(x)]_vars

C8_Witness ==
    /\ table = TwoRowTable /\ editMode = "cell"
    /\ lastOp.op = "keydown" /\ lastOp.key = "tab" /\ lastOp.cell = <<2, 1>>
    /\ ~lastOp.error /\ ~lastOp.defaultPrevented
    /\ Has(emitted[<<2, 1>>], "cell-edit-complete")
    /\ \A y \in Cells : ~d_editing[y]

\* The type a cell-edit-complete event of the step just taken must carry.
TypeOfStep ==
    IF lastOp'.op = "mouseup" THEN "outside"
    ELSE IF lastOp'.op = "keydown" /\ lastOp'.key = "enter" THEN "enter"
    ELSE IF lastOp'.op = "keydown" /\ lastOp'.key \in {"tab", "shift-tab"} THEN "tab"
    ELSE "none"

\* C9: Enter on an Editing cell at row index r with field f emits exactly
\* one cell-edit-complete, carrying the row record, index = r, field = f and
\* type = "enter", and the cell is Viewing afterwards unless the event was
\* prevented; every cell-edit-complete of any step carries "enter" for an
\* Enter key, "tab" for a Tab key and "outside" for a pointer-up.
C9_EnterCommit ==
    [][\A x \in Cells :
          /\ (d_editing[x] /\ KeyStep(x, "enter"))
                => /\ Len(Completes(emitted'[x])) = 1
                   /\ LET e == Completes(emitted'[x])[1]
                      IN /\ e.index = x[1] - 1
                         /\ e.field = table.columns[x[2]].field
                         /\ e.data = x[1]
                         /\ e.type = "enter"
                         /\ ~e.defaultPrevented => ~d_editing'[x]
          /\ \A i \in DOMAIN Completes(emitted'[x]) :
                Completes(emitted'[x])[i].type = TypeOfStep]_vars

C9_Witness ==
    /\ table = TwoRowTable /\ editMode = "cell"
    /\ lastOp.op = "keydown" /\ lastOp.key = "enter" /\ lastOp.cell = <<2, 1>>
    /\ documentEditListener[<<1, 1>>]
    /\ Len(Completes(emitted[<<2, 1>>])) = 1
    /\ Completes(emitted[<<2, 1>>])[1].index = 1
    /\ Completes(emitted[<<2, 1>>])[1].field = "TGID"
    /\ ~Prevented(emitted[<<2, 1>>])
    /\ Named(emitted[<<2, 1>>], "editing-cell-change") # <<>>
    /\ ~d_editing[<<2, 1>>]

\* C10: no step changes a row record unless the parent's handler of a
\* cell-edit-complete emitted for that record in the same step wrote it; in
\* particular a prevented commit leaves the record as the handler left it.
C10_CellNeverWritesData ==
    [][\A x \in Cells :
          rowData'[x] # rowData[x]
              => env.writes /\ Has(emitted'[x], "cell-edit-complete")]_vars

C10_Witness ==
    /\ env.writes
    /\ lastOp.op = "keydown" /\ lastOp.key = "enter"
    /\ Prevented(emitted[lastOp.cell])
    /\ d_editing[lastOp.cell]
    /\ rowData[lastOp.cell] = "original"
    /\ \E y \in Cells : rowData[y] = "edited"

\* The variables of the component, without the record of the last step.
component == <<editing, rowData, d_editing, documentEditListener, selfClick,
               overlayEventListener, overlayOrphaned, mouseUpListener,
               orphaned, drag>>

RowEditOps == {"row-edit-init", "row-edit-save", "row-edit-cancel"}

\* C11: a row-edit command on cell x emits exactly one event, named after
\* the command and carrying the row record, the field and the row index,
\* makes no other cell emit and changes nothing of the component; in
\* row-edit mode d_editing changes only in a step where the parent changes
\* the editing prop.
C11_RowEditCommandsOnlyEmit ==
    [][/\ \A x \in Cells :
            (lastOp'.op \in RowEditOps /\ lastOp'.cell = x)
            => /\ Len(emitted'[x]) = 1
               /\ emitted'[x][1].name = lastOp'.op
               /\ emitted'[x][1].data = x[1]
               /\ emitted'[x][1].field = table.columns[x[2]].field
               /\ emitted'[x][1].index = x[1] - 1
               /\ \A y \in Cells \ {x} : emitted'[y] = <<>>
               /\ component' = component
       /\ (editMode = "row" /\ d_editing' # d_editing)
            => lastOp'.op = "set-editing"]_vars

C11_Witness ==
    /\ editMode = "row"
    /\ lastOp.op = "row-edit-save"
    /\ d_editing[lastOp.cell] /\ editing[lastOp.cell]
    /\ Len(emitted[lastOp.cell]) = 1

\* C12 (as stated): the first mousedown/mouseup pair after the click that
\* put cell x into Editing, with nothing in between, makes x emit
\* cell-edit-complete of type "outside".
C12_FirstOutsideGestureCommits ==
    [][\A x \in Cells :
          (lastOp.op = "mousedown" /\ lastOp.follows = x /\ lastOp'.op = "mouseup")
          => \E i \in DOMAIN emitted'[x] :
                /\ emitted'[x][i].name = "cell-edit-complete"
                /\ emitted'[x][i].type = "outside"]_vars

\* C13: a click on a Viewing cell of an editable column in cell-edit mode
\* makes it Editing, emits cell-edit-init and then editing-cell-change with
\* editing true, and registers the document and the overlay listener; a
\* click on a non-editable column, or in row-edit mode or without edit mode,
\* changes nothing of the component and emits nothing.  Either way no other
\* cell is touched.
C13_ActivationPrecondition ==
    [][\A x \in Cells :
          (lastOp'.op = "click" /\ lastOp'.cell = x)
          => /\ IF editMode = "cell" /\ table.columns[x[2]].editor
                THEN ~d_editing[x]
                     => /\ d_editing'[x]
                        /\ Len(emitted'[x]) = 2
                        /\ emitted'[x][1].name = "cell-edit-init"
                        /\ emitted'[x][2].name = "editing-cell-change"
                        /\ emitted'[x][2].editing = "true"
                        /\ documentEditListener'[x]
                        /\ overlayEventListener'[x]
                ELSE /\ component' = component
                     /\ emitted'[x] = <<>>
             /\ \A y \in Cells \ {x} :
                   /\ emitted'[y] = <<>>
                   /\ d_editing'[y] = d_editing[y]
                   /\ documentEditListener'[y] = documentEditListener[y]
                   /\ overlayEventListener'[y] = overlayEventListener[y]]_vars

C13_Witness ==
    /\ editMode = "row"
    /\ lastOp.op = "click" /\ table.columns[lastOp.cell[2]].editor
    /\ ~d_editing[lastOp.cell]
    /\ ~documentEditListener[lastOp.cell] /\ ~overlayEventListener[lastOp.cell]

\* C14 (as stated): while cell x is Editing, an overlay-click with its
\* target inside x sets the self-click flag of x and one with its target
\* elsewhere leaves the flag as it was; on the document mouseup that comes
\* next x emits no cell-edit-complete, stays Editing and has the flag
\* cleared.
C14_OverlayClickShields ==
    [][\A x \in Cells :
          /\ (editMode = "cell" /\ d_editing[x] /\ lastOp'.op = "overlay-click")
             => selfClick'[x] = (lastOp'.cell = x \/ selfClick[x])
          /\ (editMode = "cell" /\ d_editing[x] /\ lastOp'.op = "mouseup"
              /\ lastOp.op = "overlay-click" /\ lastOp.cell = x)
             => /\ ~Has(emitted'[x], "cell-edit-complete")
                /\ d_editing'[x]
                /\ ~selfClick'[x]]_vars

\* C14, the commit alone: after an overlay-click inside Editing cell x that
\* left its self-click flag set, the mouseup that comes next makes x emit
\* no cell-edit-complete.
C14_OverlayClickNeverCommits ==
    [][\A x \in Cells :
          (editMode = "cell" /\ d_editing[x] /\ selfClick[x]
           /\ lastOp.op = "overlay-click" /\ lastOp.cell = x
           /\ lastOp'.op = "mouseup")
          => ~Has(emitted'[x], "cell-edit-complete")]_vars

\* C15 (as stated): in cell-edit mode every Editing cell has its document
\* mousedown listener registered, whichever way it became Editing.
C15_EditingHoldsListener ==
    \A x \in Cells :
        (editMode = "cell" /\ d_editing[x]) => documentEditListener[x]

\* C16: on Shift+Tab from an Editing cell, the last editable cell before it
\* in row-major order (across the start of the row to the end of the
\* previous row when needed, past every non-editable cell) is Editing
\* afterwards, having emitted cell-edit-init if it was Viewing; no other cell
\* enters Editing and the browser default of the key is prevented.
C16_ShiftTabMirrorsTab ==
    [][\A x \in Cells :
          (d_editing[x] /\ KeyStep(x, "shift-tab") /\ EditableBefore(x) # {})
          => LET t == LastOf(EditableBefore(x))
             IN /\ d_editing'[t] /\ selfClick'[t]
                /\ ~d_editing[t] => Has(emitted'[t], "cell-edit-init")
                /\ \A y \in Cells \ {t} : d_editing'[y] => d_editing[y]
                /\ lastOp'.defaultPrevented /\ ~lastOp'.error]_vars

C16_Witness ==
    /\ table = TwoRowTable /\ editMode = "cell"
    /\ lastOp.op = "keydown" /\ lastOp.key = "shift-tab" /\ lastOp.cell = <<2, 1>>
    /\ ~d_editing[<<2, 1>>] /\ ~d_editing[<<1, 2>>] /\ d_editing[<<1, 1>>]
    /\ Has(emitted[<<1, 1>>], "cell-edit-init")
    /\ emitted[<<1, 2>>] = <<>>

\* C17: on every table explored, from every cell, each cell the search looks
\* at next lies strictly after (findNextEditableColumn) or strictly before
\* (findPreviousEditableColumn) the one it came from in row-major order, and
\* the search ends with the nearest editable cell in that direction, or with
\* null when there is none up to the table boundary; it never comes back to
\* an earlier cell, also when no cell of the table is editable.
C17_SearchEndsAtBoundary ==
    \A x \in {y \in Cells : ~unmounted[y]} :
        /\ nextElementSibling(x) # Null => Before(x, nextElementSibling(x))
        /\ nextRowFirstChild(x) # Null => Before(x, nextRowFirstChild(x))
        /\ previousElementSibling(x) # Null => Before(previousElementSibling(x), x)
        /\ previousRowLastChild(x) # Null => Before(previousRowLastChild(x), x)
        /\ findNextEditableColumn(x) =
              IF EditableAfter(x) = {} THEN Null ELSE FirstOf(EditableAfter(x))
        /\ findPreviousEditableColumn(x) =
              IF EditableBefore(x) = {} THEN Null ELSE LastOf(EditableBefore(x))

\* A Tab whose search went from <<2, 1>> over the plain last cell and ended
\* with null at the end of the table.
C17_Witness ==
    /\ table = TwoRowTable /\ editMode = "cell"
    /\ lastOp.op = "keydown" /\ lastOp.key = "tab" /\ lastOp.cell = <<2, 1>>
    /\ Has(emitted[<<2, 1>>], "cell-edit-complete")
    /\ findNextEditableColumn(<<2, 1>>) = Null
    /\ findPreviousEditableColumn(<<1, 1>>) = Null
    /\ \A y \in Cells : emitted[y] # <<>> => y = <<2, 1>>

\* A world without the closure-local drag flags, and the current world with
\* every drag flag set to b.
NoDrag(w) == [f \in DOMAIN w \ {"drag"} |-> w[f]]
Dragged(b) == [World EXCEPT !.drag = [x \in Cells |-> b]]

\* Handler `Handle` does the same to everything but the drag flags whether
\* or not the pointer has moved.
DragBlind(Handle(_)) == NoDrag(Handle(Dragged(TRUE))) = NoDrag(Handle(Dragged(FALSE)))

\* C18: a mousemove changes nothing but the drag flags and emits nothing,
\* and from every state in which a pointer-down or a pointer-move is heard,
\* each handler that can run next (click, each key, mousedown, mouseup with
\* each handler outcome, overlay-click) produces the same fields and the
\* same events whatever the drag flags are; so a release after a drag
\* commits exactly as a release without one.
C18_MovesNeverInfluence ==
    [][/\ lastOp'.op = "mousemove"
          => /\ <<editing, rowData, d_editing, documentEditListener, selfClick,
                  overlayEventListener, overlayOrphaned, mouseUpListener,
                  orphaned>>' =
                <<editing, rowData, d_editing, documentEditListener, selfClick,
                  overlayEventListener, overlayOrphaned, mouseUpListener,
                  orphaned>>
             /\ \A y \in Cells : emitted'[y] = <<>>
       /\ lastOp'.op \in {"mousedown", "mousemove"}
          => \A x \in Cells :
                /\ LET H(w) == onClick(w, x) IN DragBlind(H)
                /\ LET H(w) == documentEditListenerOf(w, x) IN DragBlind(H)
                /\ LET H(w) == overlayEventListenerOf(w, x, x) IN DragBlind(H)
                /\ \A h \in HandlerOutcomes :
                      /\ LET H(w) == mouseUpListenerOf(w, x, [i \in 1..mouseUpRuns(w, x) |-> h])
                         IN DragBlind(H)
                      /\ \A key \in Keys :
                            LET H(w) == onKeyDown(w, x, key, h) IN DragBlind(H)]_vars

C18_Witness ==
    /\ lastOp.op = "mouseup"
    /\ \E x \in Cells :
          /\ drag[x]
          /\ Len(Completes(emitted[x])) = 1
          /\ Completes(emitted[x])[1].type = "outside"
          /\ ~d_editing[x]

\* C19 (as stated): a cell that is Viewing emits no cell-edit-complete, no
\* cell-edit-cancel and no editing-cell-change with editing false, whatever
\* key is pressed in it and whatever pointer event happens.
C19_ViewingCellEmitsNoLifecycleEvent ==
    [][\A x \in Cells :
          ~d_editing[x]
          => \A i \in DOMAIN emitted'[x] :
                /\ emitted'[x][i].name \notin {"cell-edit-complete", "cell-edit-cancel"}
                /\ ~(emitted'[x][i].name = "editing-cell-change"
                     /\ emitted'[x][i].editing = "false")]_vars

\* C20 (as stated): a cell that is Viewing, and has not been made so by the
\* parent's prop, emits no cell-edit-complete on a document mouseup: its
\* mouseup closure does not outlive its Editing state.
C20_NoOutsideCommitAfterKeyExit ==
    [][\A x \in Cells :
          (lastOp'.op = "mouseup" /\ ~d_editing[x] /\ propChanges = 0)
          => ~Has(emitted'[x], "cell-edit-complete")]_vars

(***************************************************************************)
(* Order of the events one cell emits in one step.                         *)
(***************************************************************************)
Changes(seq) == Named(seq, "editing-cell-change")
\* The position of the first event called `name` in seq (0 without one).
First(seq, name) ==
    IF Has(seq, name)
    THEN CHOOSE i \in DOMAIN seq :
            seq[i].name = name /\ \A j \in 1..(i - 1) : seq[j].name # name
    ELSE 0

\* Cell x, Editing, had a commit accepted in the step just taken.
AcceptedCommit(x) ==
    /\ d_editing[x]
    /\ Has(emitted'[x], "cell-edit-complete") /\ ~Prevented(emitted'[x])

\* C21: in one step, a cell that is activated emits cell-edit-init and
\* then one editing-cell-change with editing true; an Editing cell whose
\* commit is accepted emits cell-edit-complete and then one
\* editing-cell-change with editing false, and every call of the handler
\* saw the cell Editing; an Editing cell that hears Escape emits one
\* editing-cell-change with editing false and then cell-edit-cancel.
C21_EventOrder ==
    [][\A x \in Cells :
          LET seq == emitted'[x]
          IN /\ Has(seq, "cell-edit-init")
                => /\ Len(Changes(seq)) = 1
                   /\ Changes(seq)[1].editing = "true"
                   /\ First(seq, "cell-edit-init") < First(seq, "editing-cell-change")
             /\ AcceptedCommit(x)
                => /\ Len(Changes(seq)) = 1
                   /\ Changes(seq)[1].editing = "false"
                   /\ First(seq, "cell-edit-complete") < First(seq, "editing-cell-change")
                   /\ \A i \in DOMAIN observed'[x] : observed'[x][i]
             /\ (d_editing[x] /\ KeyStep(x, "escape"))
                => /\ Len(Changes(seq)) = 1
                   /\ Changes(seq)[1].editing = "false"
                   /\ First(seq, "editing-cell-change") < First(seq, "cell-edit-cancel")]_vars

(***************************************************************************)
(* The render passes of one row with frozen cells: every cell's mounted    *)
(* hook runs once, then cells are rendered again in any order, each render *)
(* writing the cell's style to its element and running its updated hook.   *)
(***************************************************************************)
StickyInit ==
    /\ table \in StickyTables /\ editMode = "null" /\ env = Quiet
    /\ Constructed
    /\ outerWidth \in [Cells -> 1..MaxWidth]
    /\ isMounted = [x \in Cells |-> FALSE]

StickyFrame ==
    UNCHANGED <<table, editMode, env, editing, rowData, d_editing,
                documentEditListener, selfClick, overlayEventListener,
                overlayOrphaned, mouseUpListener, orphaned, drag, emitted,
                observed, propChanges, outerWidth, unmounted>>

\* The first render of cell x and its mounted hook.
Mounted(x) ==
    /\ ~isMounted[x]
    /\ isMounted' = [isMounted EXCEPT ![x] = TRUE]
    /\ style' = renderStyle(styleObject, style, x)
    /\ styleObject' = mounted(styleObject, style', x)
    /\ lastOp' = [NoOp EXCEPT !.op = "mounted", !.cell = x]
    /\ StickyFrame

\* A later render of cell x and its updated hook.
Updated(x) ==
    /\ isMounted[x]
    /\ style' = renderStyle(styleObject, style, x)
    /\ styleObject' = updated(styleObject, style', x)
    /\ lastOp' = [NoOp EXCEPT !.op = "updated", !.cell = x]
    /\ UNCHANGED isMounted
    /\ StickyFrame

StickyNext ==
    \/ \E x \in Cells : Mounted(x)
    \/ \E x \in Cells : Updated(x)

StickySpec == StickyInit /\ [][StickyNext]_vars

\* The widths of the cells before, and after, cell x in its row, added up.
RECURSIVE WidthsBefore(_)
WidthsBefore(x) ==
    IF x[2] = 1 THEN 0
    ELSE outerWidth[<<x[1], x[2] - 1>>] + WidthsBefore(<<x[1], x[2] - 1>>)
RECURSIVE WidthsAfter(_)
WidthsAfter(x) ==
    IF x[2] = Len(table.columns) THEN 0
    ELSE outerWidth[<<x[1], x[2] + 1>>] + WidthsAfter(<<x[1], x[2] + 1>>)

Frozen(x, align) ==
    table.columns[x[2]].frozen /\ table.columns[x[2]].alignFrozen = align
HasOffset(str) == str.text = "px" /\ ~str.num.nan

\* The offset a frozen cell gets from its neighbour `sib` in the row (none:
\* Null), whose own offset is the length `sibOffset`.
OffsetFrom(sib, sibOffset) ==
    IF sib = Null THEN Px(Num(0))
    ELSE Px(Num(outerWidth[sib] + sibOffset.num.val))

\* C22 (as stated): when the mounted or updated hook of cell x has run, a
\* left-aligned frozen x has left = 0 without a previous sibling and
\* otherwise the width of the previous sibling plus that sibling's left
\* offset, so that in a run of left-frozen cells from the first cell of the
\* row, each placed at the sum of the widths before it, x is placed at the
\* sum of the widths before x; a right-aligned frozen x has its right offset
\* the same way from the next sibling and that sibling's right offset; the
\* styleObject of a cell that is not frozen never changes.
C22_StickyOffsets ==
    [][\A x \in Cells :
          (lastOp'.op \in {"mounted", "updated"} /\ lastOp'.cell = x)
          => LET prev == IF x[2] > 1 THEN <<x[1], x[2] - 1>> ELSE Null
                 next == IF x[2] < Len(table.columns) THEN <<x[1], x[2] + 1>> ELSE Null
             IN /\ (Frozen(x, "left") /\ (prev # Null => HasOffset(style[prev].left)))
                   => styleObject'[x].left =
                         OffsetFrom(prev, IF prev = Null THEN EmptyString
                                          ELSE style[prev].left)
                /\ (Frozen(x, "left")
                    /\ \A y \in Cells :
                          (y[1] = x[1] /\ y[2] < x[2])
                          => /\ Frozen(y, "left")
                             /\ style[y].left = Px(Num(WidthsBefore(y))))
                   => styleObject'[x].left = Px(Num(WidthsBefore(x)))
                /\ (Frozen(x, "right") /\ (next # Null => HasOffset(style[next].right)))
                   => styleObject'[x].right =
                         OffsetFrom(next, IF next = Null THEN EmptyString
                                          ELSE style[next].right)
                /\ (Frozen(x, "right")
                    /\ \A y \in Cells :
                          (y[1] = x[1] /\ y[2] > x[2])
                          => /\ Frozen(y, "right")
                             /\ style[y].right = Px(Num(WidthsAfter(y))))
                   => styleObject'[x].right = Px(Num(WidthsAfter(x)))
                /\ \A y \in Cells :
                      ~table.columns[y[2]].frozen
                      => styleObject'[y] = styleObject[y] /\ styleObject'[y] = NoStyle]_vars

====
